---- MODULE Spec2Model ----
(***************************************************************************)
(* The chat widget of src/src/components/ChatBot.tsx as a state machine.   *)
(*                                                                         *)
(* The component keeps its state in React hooks.  The handlers of a render *)
(* are closures over the values that render read, so the model keeps two   *)
(* copies of the hook state: the hook state itself (every queued update    *)
(* applied: what the next render will read and what a functional updater   *)
(* receives as prev) and view, the values captured by the render that is   *)
(* currently on screen.  Handlers read the captured values (message,       *)
(* isLoading, isApiKeySet, messages, isMinimized) from view and write the  *)
(* hook state; Render is the step that brings view up to date.  React      *)
(* renders after a handler has returned, so an event dispatched before the *)
(* render runs the handler of the previous render; only the change event   *)
(* of the controlled input renders within its own step.                    *)
(*                                                                         *)
(* A text is a sequence of characters; a fixed string of the source is a   *)
(* one-element sequence holding a token that names it.                     *)
(***************************************************************************)
EXTENDS Naturals, Sequences, FiniteSets, TLC

\* Bound: the number of submissions the guard may accept in one run.
MaxTurns == 2

----------------------------------------------------------------------------
\* Texts

SP == " "

\* Drafts the user can type: empty, whitespace only, plain, padded.
Drafts == { <<>>, <<SP>>, <<"a">>, <<SP, "b", SP>> }

IsSpace(c) == c = SP

RECURSIVE TrimStart(_)
TrimStart(s) == IF s /= <<>> /\ IsSpace(Head(s)) THEN TrimStart(Tail(s)) ELSE s

RECURSIVE TrimEnd(_)
TrimEnd(s) ==
    IF s /= <<>> /\ IsSpace(s[Len(s)]) THEN TrimEnd(SubSeq(s, 1, Len(s) - 1)) ELSE s

trimNothing(s) == s

\* String.prototype.trim
trim(s) == TrimEnd(TrimStart(s))

SYSTEM_PROMPT == << "You are an expert educational AI tutor." >>
GREETING      == << "Hi! I'm your AI learning assistant." >>
KEY_WARNING   == << "OpenAI API key is not configured." >>
CANT_RESPOND  == << "I can't respond right now because the OpenAI API key is not configured." >>
FALLBACK      == << "I'm sorry, I'm having trouble connecting right now." >>

MessageTrimmed(text, isBot, timestamp) ==
    [text |-> trim(text), isBot |-> isBot, timestamp |-> timestamp]

\* interface Message
Message(text, isBot, timestamp) ==
    [text |-> text, isBot |-> isBot, timestamp |-> timestamp]

----------------------------------------------------------------------------
\* The completion endpoint

\* What the awaited call can produce: a rejection, or a fulfilled value.
\* shape names the part of completion.choices[0]?.message?.content that is
\* there: "no_choices_field" (choices undefined), "no_choice" (empty array),
\* "no_message", "null_content", "content" (a string, possibly empty).
Errors == { "network", "http_429", "http_500" }

Completion(shape, content) == [kind |-> "fulfilled", shape |-> shape, content |-> content]
Rejection(error)           == [kind |-> "rejected", error |-> error]

Outcomes ==
    { Rejection(e) : e \in Errors }
    \cup { Completion(s, <<>>) :
             s \in { "no_choices_field", "no_choice", "no_message", "null_content" } }
    \cup { Completion("content", c) : c \in { <<>>, <<SP, "r">> } }

ThrowsWithoutChoice(o) ==
    o.kind = "rejected" \/ o.shape \in { "no_choices_field", "no_choice" }

\* Evaluating completion.choices[0] throws a TypeError when choices is undefined.
Throws(o) == o.kind = "rejected" \/ o.shape = "no_choices_field"

\* if (botResponse): a defined, non-empty string.
HasBotResponse(o) == o.kind = "fulfilled" /\ o.shape = "content" /\ o.content /= <<>>

\* catch (error) has no filter: it catches whatever the try block throws.
CaughtNetworkOnly(o) == o.kind = "rejected" /\ o.error = "network"

Caught(o) == TRUE

\* The text of errorMessage: the fixed string, whatever was thrown.
CatchTextFromError(o) == IF o.kind = "rejected" THEN << o.error >> ELSE FALLBACK

CatchText(o) == FALLBACK

\* finally { setIsLoading(false) }: the flag after the handler has ended,
\* whatever the try block did.
LoadingUnlessThrown(o) == o.kind = "rejected"

LoadingAfter(o) == FALSE

\* What the awaited call produced, as the history records it: a fulfilled
\* value whose first choice has no content (no choice, no message, null or
\* the empty string) is recorded, anything else is not.
Settled(o) ==
    IF /\ o.kind = "fulfilled"
       /\ \/ o.shape \in { "no_choice", "no_message", "null_content" }
          \/ (o.shape = "content" /\ o.content = <<>>)
    THEN "no_content"
    ELSE "other"

\* msg => ({ role: msg.isBot ? 'assistant' : 'user', content: msg.text })
RoleRecord(msg) ==
    [role |-> IF msg.isBot THEN "assistant" ELSE "user", content |-> msg.text]

\* The messages array of the request built from the captured store and draft.
Payload(msgs, text) ==
    << [role |-> "system", content |-> SYSTEM_PROMPT] >>
    \o [i \in 1..Len(msgs) |-> RoleRecord(msgs[i])]
    \o << [role |-> "user", content |-> text] >>

----------------------------------------------------------------------------
VARIABLES
    openai,         \* the module-level client is non-null
    isOpen, isMinimized, message, isLoading, messages, isApiKeySet,  \* hook state
    view,           \* the values captured by the render on screen
    effectPending,  \* the seeding effect is scheduled and has not run
    now,            \* the clock read by new Date()
    requests,       \* every completion request issued, in order
    pending,        \* indices of the requests that are awaited
    escaped,        \* an error left handleSendMessage
    turns,          \* history: the accepted submissions, in order
    turnOf,         \* history: for each Message of the store, its turn (0: seed)
    lastEvent       \* history: how the last step ran handleSendMessage (a submit
                    \* or what the awaited call produced), "other" if it did not

vars == << openai, isOpen, isMinimized, message, isLoading, messages, isApiKeySet,
           view, effectPending, now, requests, pending, escaped, turns, turnOf,
           lastEvent >>

hooks == << isOpen, isMinimized, message, isLoading, messages, isApiKeySet >>
net   == << requests, pending, escaped >>
hist  == << turns, turnOf >>

\* The argument of a functional updater, setMessages(prev => ...): the store
\* with every earlier update applied, not the array the render captured.
prevCaptured == view.messages

prev == messages

\* What a render reads from the hooks.
Snapshot ==
    [isOpen |-> isOpen, isMinimized |-> isMinimized, message |-> message,
     isLoading |-> isLoading, messages |-> messages, isApiKeySet |-> isApiKeySet]

\* Module initialisation: the client exists when the key is set and the
\* constructor did not throw.
InitClient(apiKey, ctorThrows) == apiKey /= "" /\ ~ctorThrows

Init ==
    /\ \E apiKey \in { "", "sk-key" }, ctorThrows \in BOOLEAN :
          openai = InitClient(apiKey, ctorThrows)
    /\ isOpen = FALSE
    /\ isMinimized = FALSE
    /\ message = <<>>
    /\ isLoading = FALSE
    /\ messages = <<>>
    /\ isApiKeySet = openai
    /\ view = [isOpen |-> FALSE, isMinimized |-> FALSE, message |-> <<>>,
               isLoading |-> FALSE, messages |-> <<>>, isApiKeySet |-> openai]
    /\ effectPending = TRUE
    /\ now = 0
    /\ requests = <<>>
    /\ pending = {}
    /\ escaped = FALSE
    /\ turns = <<>>
    /\ turnOf = <<>>
    /\ lastEvent = "other"

----------------------------------------------------------------------------
\* useEffect(() => setMessages([seed]), [isApiKeySet])
SeedEffect ==
    /\ effectPending
    /\ messages' = << Message(IF view.isApiKeySet THEN GREETING ELSE KEY_WARNING,
                              TRUE, now) >>
    /\ turnOf' = << 0 >>
    /\ now' = now + 1
    /\ effectPending' = FALSE
    /\ lastEvent' = "other"
    /\ UNCHANGED << openai, isOpen, isMinimized, message, isLoading, isApiKeySet,
                    view, net, turns >>

\* The dependency array [isApiKeySet]: the effect runs again only when the
\* value differs from the one of the previous render.
EffectEveryRender(before, after) == TRUE

EffectDepsChanged(before, after) == before /= after

\* The component function runs again: the handlers on screen now close over
\* the current hook state.  Pending effects run before the next render; the
\* effect is scheduled again when its dependency changed.
Render ==
    /\ ~effectPending
    /\ view /= Snapshot
    /\ view' = Snapshot
    /\ effectPending' = EffectDepsChanged(view.isApiKeySet, isApiKeySet)
    /\ lastEvent' = "other"
    /\ UNCHANGED << openai, hooks, now, net, hist >>

\* onClick={() => setIsOpen(true)}, rendered when !isOpen
OpenClick ==
    /\ ~view.isOpen
    /\ isOpen' = TRUE
    /\ lastEvent' = "other"
    /\ UNCHANGED << openai, isMinimized, message, isLoading, messages, isApiKeySet,
                    view, effectPending, now, net, hist >>

\* onClick={() => setIsMinimized(!isMinimized)}, rendered when isOpen
MinimizeClick ==
    /\ view.isOpen
    /\ isMinimized' = ~view.isMinimized
    /\ lastEvent' = "other"
    /\ UNCHANGED << openai, isOpen, message, isLoading, messages, isApiKeySet,
                    view, effectPending, now, net, hist >>

CloseClickClearingDraft ==
    /\ view.isOpen
    /\ isOpen' = FALSE
    /\ message' = <<>>
    /\ lastEvent' = "other"
    /\ UNCHANGED << openai, isMinimized, isLoading, messages, isApiKeySet,
                    view, effectPending, now, net, hist >>

CloseClickAborting ==
    /\ view.isOpen
    /\ isOpen' = FALSE
    /\ pending' = {}
    /\ isLoading' = FALSE
    /\ lastEvent' = "other"
    /\ UNCHANGED << openai, isMinimized, message, messages, isApiKeySet,
                    view, effectPending, now, requests, escaped, hist >>

\* onClick={() => setIsOpen(false)}, rendered when isOpen
CloseClick ==
    /\ view.isOpen
    /\ isOpen' = FALSE
    /\ lastEvent' = "other"
    /\ UNCHANGED << openai, isMinimized, message, isLoading, messages, isApiKeySet,
                    view, effectPending, now, net, hist >>

FormRenderedWhenOpen == view.isOpen

\* The form is rendered when the window is open and not minimized.
FormRendered == view.isOpen /\ ~view.isMinimized

\* onChange={(e) => setMessage(e.target.value)} on an input with
\* value={message} and disabled={isLoading}.  React writes the value of a
\* controlled input back before the change event is over, which renders the
\* queued updates: the render is part of this step.
ChangeDraft(text) ==
    /\ FormRendered
    /\ ~view.isLoading
    /\ message' = text
    /\ view' = [Snapshot EXCEPT !.message = text]
    /\ effectPending' = EffectDepsChanged(view.isApiKeySet, isApiKeySet)
    /\ lastEvent' = "other"
    /\ UNCHANGED << openai, isOpen, isMinimized, isLoading, messages, isApiKeySet,
                    now, net, hist >>

\* if (!message.trim() || isLoading) return;
Rejected == trim(view.message) = <<>> \/ view.isLoading

\* if (!isApiKeySet): the branch that answers locally and returns.
NeverUnconfigured == FALSE

Unconfigured == ~view.isApiKeySet

\* The body of handleSendMessage up to the await.
handleSendMessage ==
    IF Rejected
    THEN UNCHANGED << hooks, now, net, hist >>
    ELSE
        LET userMessage == Message(view.message, FALSE, now)
            turn == Len(turns) + 1
        IN  /\ message' = <<>>
            /\ UNCHANGED << isOpen, isMinimized, isApiKeySet, escaped >>
            /\ IF Unconfigured
               THEN /\ messages' = prev \o
                          << userMessage, Message(CANT_RESPOND, TRUE, now + 1) >>
                    /\ turnOf' = turnOf \o << turn, turn >>
                    /\ now' = now + 2
                    /\ turns' = Append(turns, [text |-> view.message,
                                               before |-> messages,
                                               outcome |-> "unconfigured"])
                    /\ UNCHANGED << isLoading, requests, pending >>
               ELSE /\ messages' = Append(prev, userMessage)
                    /\ turnOf' = Append(turnOf, turn)
                    /\ now' = now + 1
                    /\ isLoading' = TRUE
                    /\ requests' = Append(requests,
                          [turn |-> turn,
                           messages |-> Payload(view.messages, view.message),
                           model |-> "gpt-3.5-turbo"])
                    /\ pending' = pending \cup { Len(requests) + 1 }
                    /\ turns' = Append(turns, [text |-> view.message,
                                               before |-> messages,
                                               outcome |-> "pending"])

\* disabled={isLoading || !isApiKeySet} on the submit button
SendDisabledWhileLoading == view.isLoading

SendDisabled == view.isLoading \/ ~view.isApiKeySet

\* The submit button is pressed.
SubmitClick ==
    /\ FormRendered
    /\ ~SendDisabled
    /\ Rejected \/ Len(turns) < MaxTurns
    /\ handleSendMessage
    /\ lastEvent' = "submit_click"
    /\ UNCHANGED << openai, view, effectPending >>

\* A submit event reaches the form's onSubmit without the button.
SubmitEvent ==
    /\ FormRendered
    /\ Rejected \/ Len(turns) < MaxTurns
    /\ handleSendMessage
    /\ lastEvent' = "submit_event"
    /\ UNCHANGED << openai, view, effectPending >>

\* The awaited call of request r settles with outcome o and the handler runs
\* to its end: try / catch / finally.
Resolve(r, o) ==
    LET turn == requests[r].turn
        text == IF Throws(o) THEN CatchText(o) ELSE o.content
        appends == IF Throws(o) THEN Caught(o) ELSE HasBotResponse(o)
    IN  /\ r \in pending
        /\ pending' = pending \ { r }
        /\ IF appends
           THEN /\ messages' = Append(prev, Message(text, TRUE, now))
                /\ turnOf' = Append(turnOf, turn)
                /\ now' = now + 1
           ELSE UNCHANGED << messages, turnOf, now >>
        /\ escaped' = (escaped \/ (Throws(o) /\ ~Caught(o)))
        /\ isLoading' = LoadingAfter(o)
        /\ turns' = [turns EXCEPT ![turn].outcome =
                        IF Throws(o) THEN "failed"
                        ELSE IF HasBotResponse(o) THEN "reply" ELSE "empty"]
        /\ lastEvent' = Settled(o)
        /\ UNCHANGED << openai, isOpen, isMinimized, message, isApiKeySet, view,
                        effectPending, requests >>

\* The user edits the input.
Typing == \E text \in Drafts : ChangeDraft(text)

\* The endpoint answers or fails one of the awaited requests.
Settle == \E r \in pending, o \in Outcomes : Resolve(r, o)

Next ==
    \/ SeedEffect
    \/ Render
    \/ OpenClick
    \/ MinimizeClick
    \/ CloseClick
    \/ Typing
    \/ SubmitClick
    \/ SubmitEvent
    \/ Settle

Spec == Init /\ [][Next]_vars

\* The endpoint answers or fails every request it receives.
FairSpec ==
    /\ Spec
    /\ \A r \in 1..MaxTurns : WF_vars(\E o \in Outcomes : Resolve(r, o))

TypeOK ==
    /\ openai \in BOOLEAN
    /\ isLoading \in BOOLEAN
    /\ message \in Drafts
    /\ Len(messages) = Len(turnOf)
    /\ pending \subseteq 1..Len(requests)
    /\ Len(turns) <= MaxTurns

----------------------------------------------------------------------------
\* Vocabulary of the properties

IsPrefix(s, t) == Len(s) <= Len(t) /\ SubSeq(t, 1, Len(s)) = s

\* The positions of the store that hold the user / assistant Messages of turn t.
UserAt(t) == { i \in 1..Len(messages) : turnOf[i] = t /\ ~messages[i].isBot }
BotAt(t)  == { i \in 1..Len(messages) : turnOf[i] = t /\ messages[i].isBot }

\* The step is a run of handleSendMessage.
SubmitStep == lastEvent' \in { "submit_click", "submit_event" }

\* The step leaves the store, the draft, the loading flag and the network alone.
NoOp == UNCHANGED << messages, message, isLoading, requests, pending >>

\* The step settles the request of turn t with the given outcome.
Settles(t, outcome) ==
    /\ t <= Len(turns)
    /\ turns[t].outcome = "pending"
    /\ turns'[t].outcome = outcome

----------------------------------------------------------------------------
\* C1 (as stated): every accepted submission has exactly one user Message in
\* the store and, once its completion call is over, exactly one assistant
\* Message, whatever the outcome of the call.
C1_AsStated ==
    \A t \in 1..Len(turns) :
        /\ Cardinality(UserAt(t)) = 1
        /\ turns[t].outcome /= "pending" => Cardinality(BotAt(t)) = 1

\* The assistant Messages a turn has, by the outcome of its turn.
C1_Counts ==
    \A t \in 1..Len(turns) :
        /\ Cardinality(UserAt(t)) = 1
        /\ \A i \in UserAt(t) : messages[i].text = turns[t].text
        /\ Cardinality(BotAt(t)) =
              IF turns[t].outcome \in { "pending", "empty" } THEN 0 ELSE 1
        /\ \A i \in BotAt(t) :
              /\ turns[t].outcome = "unconfigured" => messages[i].text = CANT_RESPOND
              /\ turns[t].outcome = "failed" => messages[i].text = FALLBACK
              /\ turns[t].outcome = "reply" => messages[i].text \notin { <<>>, FALLBACK }

\* C1 (amended): every accepted submission appends exactly one user Message
\* and is eventually followed by exactly one assistant Message for that turn
\* (the reply, the configuration warning or the fallback), except that a call
\* that succeeds without content is followed by no assistant Message.
C1_OneReplyUnlessEmpty ==
    /\ []C1_Counts
    /\ \A t \in 1..MaxTurns :
          (t <= Len(turns) /\ turns[t].outcome = "pending")
              ~> (t <= Len(turns) /\ turns[t].outcome /= "pending")

C1_Witness ==
    \E t, u \in 1..Len(turns) :
        /\ turns[t].outcome = "empty"
        /\ turns[u].outcome \in { "reply", "failed" }
        /\ Cardinality(BotAt(u)) = 1

\* C2 (as stated): at most one completion request is outstanding, and the
\* loading flag is true exactly while a request is outstanding.
C2_SingleRequest ==
    /\ Cardinality(pending) <= 1
    /\ isLoading <=> pending /= {}

\* C3 (as stated): while a request is outstanding, a run of the submit handler
\* changes neither the store, the draft, the loading flag nor the network.
C3_PendingSubmitNoOp ==
    [][(SubmitStep /\ pending /= {}) => NoOp]_vars

\* C4: without a client no request is ever issued, the loading flag is never
\* true, and the store is the seed followed, for each accepted submission, by
\* its user Message and the configuration warning.
C4_UnavailableClient ==
    ~openai =>
        /\ requests = <<>>
        /\ pending = {}
        /\ ~isLoading
        /\ ~effectPending => Len(messages) = 1 + 2 * Len(turns)
        /\ \A t \in 1..Len(turns) :
              /\ messages[2 * t] = [text |-> turns[t].text, isBot |-> FALSE,
                                    timestamp |-> messages[2 * t].timestamp]
              /\ messages[2 * t + 1].isBot
              /\ messages[2 * t + 1].text = CANT_RESPOND

C4_Witness ==
    /\ ~openai
    /\ Len(turns) = MaxTurns
    /\ messages[Len(messages)].text = CANT_RESPOND

\* C5: a completion call that fails, for whatever reason, appends exactly one
\* assistant Message with the fallback text, and no error leaves the handler.
C5_FallbackOnFailure ==
    /\ [][\A t \in 1..MaxTurns :
             Settles(t, "failed") =>
                 messages' = Append(messages,
                     [text |-> FALLBACK, isBot |-> TRUE,
                      timestamp |-> messages'[Len(messages')].timestamp])]_vars
    /\ []~escaped

C5_Witness ==
    /\ \E t \in 1..Len(turns) : turns[t].outcome = "failed"
    /\ messages[Len(messages)].text = FALLBACK
    /\ ~isLoading

\* C6: a run of the submit handler on an empty or whitespace-only draft
\* changes neither the store, the draft, the loading flag nor the network.
C6_BlankSubmitNoOp ==
    [][(SubmitStep /\ TrimEnd(TrimStart(view.message)) = <<>>) => NoOp]_vars

C6_Witness ==
    /\ lastEvent = "submit_event"
    /\ view.message = << SP >>
    /\ ~view.isLoading
    /\ Len(messages) = 1

\* C7: once the seeding effect has run, the store is never empty and begins
\* with the seed, the greeting with a credential and the warning without;
\* the effect runs once, on the empty store.
C7_Seeded ==
    /\ [](~effectPending =>
            /\ Len(messages) >= 1
            /\ messages[1].isBot
            /\ messages[1].text = IF isApiKeySet THEN GREETING ELSE KEY_WARNING
            /\ turnOf[1] = 0)
    /\ [][effectPending' => (effectPending /\ messages = <<>>)]_vars
    /\ [][(effectPending /\ ~effectPending') => messages = <<>>]_vars

C7_Witness ==
    /\ ~effectPending
    /\ Len(messages) = 1 + 2 * MaxTurns
    /\ messages[1].text = GREETING

\* C8: every step extends the store: the store before the step is a prefix of
\* the store after it.
C8_AppendOnly ==
    [][IsPrefix(messages, messages')]_vars

C8_Witness ==
    \E i, j \in 1..Len(messages) :
        /\ i < j
        /\ ~messages[i].isBot
        /\ ~messages[j].isBot
        /\ messages[i].text = messages[j].text

\* C9 (as stated): the assistant Message of a turn comes after the user
\* Message of that turn and before the user Message of every later turn.
C9_RepliesInOrder ==
    \A i \in 1..Len(messages) :
        (messages[i].isBot /\ turnOf[i] >= 1) =>
            /\ \E j \in 1..(i - 1) : ~messages[j].isBot /\ turnOf[j] = turnOf[i]
            /\ \A j \in 1..(i - 1) : turnOf[j] <= turnOf[i]

\* C10 (as stated): a request carries the system instruction, one role-tagged
\* record for each Message of the store as it was just before the new user
\* Message was appended, and a last user record with the new text.
C10_PayloadIsTranscript ==
    \A r \in 1..Len(requests) :
        LET body == requests[r].messages
            before == turns[requests[r].turn].before
        IN  /\ Len(body) = Len(before) + 2
            /\ body[1] = [role |-> "system", content |-> SYSTEM_PROMPT]
            /\ \A i \in 1..Len(before) :
                  /\ body[i + 1].content = before[i].text
                  /\ body[i + 1].role = "assistant" <=> before[i].isBot
                  /\ body[i + 1].role = "user" <=> ~before[i].isBot
            /\ body[Len(body)] = [role |-> "user", content |-> turns[requests[r].turn].text]

\* C11 (as stated, the open button): a step that opens the closed widget
\* leaves it open and not minimized, whatever was done before.
C11_OpenYieldsOpen ==
    [][(~isOpen /\ isOpen') => ~isMinimized']_vars

\* A step of the open, minimize or close button that changes the visibility.
VisibilityStep == isOpen' /= isOpen \/ isMinimized' /= isMinimized

\* C12: the open, minimize and close buttons leave the store, the draft, the
\* loading flag and the network as they are.
C12_VisibilityKeepsConversation ==
    [][VisibilityStep => NoOp]_vars

C12_Witness ==
    /\ ~isOpen
    /\ ~view.isOpen
    /\ message /= <<>>
    /\ Len(messages) > 1

\* The user Messages of the store, in order.
UserMessages == SelectSeq(messages, LAMBDA m : ~m.isBot)

\* C13: the store holds as many user Messages as submissions were accepted,
\* and the k-th carries the draft of the k-th accepted submission, untrimmed.
C13_UserMessagesAreSubmissions ==
    /\ Len(UserMessages) = Len(turns)
    /\ \A k \in 1..Len(turns) : UserMessages[k].text = turns[k].text

C13_Witness ==
    /\ Len(turns) = MaxTurns
    /\ \E k \in 1..Len(turns) : UserMessages[k].text = << SP, "b", SP >>

\* The step ends the await of at least one request and starts none.
ResolutionStep == pending' /= pending /\ pending' \subseteq pending

\* C14: when the call succeeds and its first choice carries no content, the
\* resolution leaves the store as it is, appends no fallback, and the loading
\* flag is false afterwards.
C14_EmptyResponseAppendsNothing ==
    [][lastEvent' = "no_content" => (messages' = messages /\ ~isLoading')]_vars

C14_Witness ==
    /\ lastEvent = "no_content"
    /\ Len(turns) = 1
    /\ Len(messages) = 2
    /\ ~messages[2].isBot
    /\ pending = {}
    /\ ~isLoading

\* C15: every resolution leaves the loading flag false, a handler that sees
\* the flag false accepts a non-blank draft as a new turn, and the flag never
\* stays true for ever.
C15_NeverStuckLoading ==
    /\ [][ResolutionStep => ~isLoading']_vars
    /\ [][(SubmitStep /\ ~view.isLoading /\ TrimEnd(TrimStart(view.message)) /= <<>>)
             => (Len(turns') = Len(turns) + 1
                 /\ turns'[Len(turns')].text = view.message)]_vars
    /\ isLoading ~> ~isLoading

C15_Witness ==
    \E i, j \in 1..Len(messages) :
        /\ i < j
        /\ messages[i].text = FALLBACK
        /\ turns[turnOf[i]].outcome = "failed"
        /\ ~messages[j].isBot
        /\ turnOf[j] > turnOf[i]

\* The window, as the hooks hold it, is closed or minimized.
Hidden == ~isOpen \/ isMinimized

\* C16: the close, minimize and open buttons never end or start a request;
\* a request that is awaited while the window is closed or minimized is
\* eventually settled, and a resolution extends the store and resets the
\* loading flag whether or not the window is shown.
C16_NoCancellation ==
    /\ [][VisibilityStep => (pending' = pending /\ requests' = requests)]_vars
    /\ [][(ResolutionStep /\ Hidden) =>
             /\ IsPrefix(messages, messages')
             /\ ~isLoading'
             /\ \A t \in 1..MaxTurns :
                   Settles(t, "reply") \/ Settles(t, "failed")
                       => Len(messages') = Len(messages) + 1]_vars
    /\ \A t \in 1..MaxTurns :
          (t <= Len(turns) /\ turns[t].outcome = "pending" /\ Hidden)
              ~> (t <= Len(turns) /\ turns[t].outcome /= "pending")

C16_Witness ==
    /\ ~isOpen
    /\ ~view.isOpen
    /\ pending = {}
    /\ ~isLoading
    /\ Len(view.messages) >= 2
    /\ Len(messages) = Len(view.messages) + 1
    /\ messages[Len(messages)].isBot
    /\ turns[turnOf[Len(messages)]].outcome = "reply"

\* C17 (as stated): the draft is empty in every state in which a request is
\* in flight.
C17_DraftEmptyInFlight ==
    pending /= {} => message = <<>>

\* C18 (as stated): without a credential the submit button is disabled and
\* the store is, for the whole session, the seeded warning alone.
C18_AsStated ==
    (~openai /\ ~effectPending) =>
        /\ ~view.isApiKeySet
        /\ Len(messages) = 1
        /\ messages[1].text = KEY_WARNING

\* C18 (amended): without a credential the submit button is disabled in every
\* render, no run of the handler comes from the button, and the store grows
\* beyond the seeded warning only by submit events that reach the form
\* without the button, each adding the user Message and the warning.
C18_ButtonNeverSubmits ==
    /\ [](~openai => (~view.isApiKeySet /\ lastEvent /= "submit_click"))
    /\ [][(~openai /\ ~effectPending /\ messages' /= messages) =>
             /\ lastEvent' = "submit_event"
             /\ Len(messages') = Len(messages) + 2
             /\ IsPrefix(messages, messages')
             /\ messages'[Len(messages')].text = CANT_RESPOND]_vars

C18_Witness ==
    /\ ~openai
    /\ view.isOpen
    /\ ~view.isMinimized
    /\ lastEvent = "submit_event"
    /\ Len(messages) = 3
    /\ messages[1].text = KEY_WARNING

\* C19: once the store is seeded, while the render on screen is closed or
\* minimized no step changes the draft or accepts a submission, and the
\* store changes only by the resolution of a request.
C19_FormOnlyWhenShown ==
    [][~(view.isOpen /\ ~view.isMinimized) =>
          /\ message' = message
          /\ Len(turns') = Len(turns)
          /\ requests' = requests
          /\ (messages' /= messages => (effectPending \/ ResolutionStep))]_vars

C19_Witness ==
    /\ view.isOpen
    /\ view.isMinimized
    /\ isMinimized
    /\ Len(view.messages) >= 2
    /\ Len(messages) > Len(view.messages)
    /\ messages[Len(messages)].isBot
    /\ turnOf[Len(messages)] >= 1

====
